---- MODULE Spec2Model ----
(***************************************************************************)
(* Model of the taxi trip-record pipeline: extract_columns.py (column      *)
(* extraction), format_data.py (identifier generation, elapsed time),      *)
(* generate_stats_report.py (statistics engine and report renderer),       *)
(* verify_data.py (verifier) and the chain of the four scripts.            *)
(*                                                                         *)
(* Numbers.  Python floats are modelled in fixed point: a number is a      *)
(* record [t, nan, v] where t is the runtime type of the value             *)
(* ("float64" = numpy.float64, a subclass of Python float; "int64" =       *)
(* numpy.int64, not a subclass of Python int; "int" = Python int), nan     *)
(* marks NaN and v is the value in units of 1/Scale.                       *)
(***************************************************************************)
EXTENDS Integers, Sequences, FiniteSets, TLC

VARIABLES
    pc,               \* position of the running script
    console,          \* lines printed so far
    input_file,       \* generate_stats_report: formatted_data.csv on disk
    data,             \* generate_stats_report: DataFrame from pd.read_csv
    stats_dict,       \* generate_stats_report: result of calculate_statistics
    report,           \* generate_stats_report: statistics_report.md on disk
    pickup_time,      \* format_data / verify_data: pickup 'HH:MM:SS'
    dropoff_time,     \* format_data / verify_data: dropoff 'HH:MM:SS'
    time_diff,        \* format_data: result of calculate_elapsed_time
    expected_elapsed, \* verify_data: elapsed time recomputed by verify_format
    num_ids,          \* format_data: argument of generate_unique_ids
    used_ids,         \* format_data: set of identifiers handed out
    all_ids,          \* format_data: list of identifiers handed out
    raw_df,           \* verify_data: raw_data.csv as read
    rel_df,           \* verify_data: relevant_data.csv as read
    fmt_df,           \* verify_data: formatted_data.csv as read
    loop_i,           \* verify_data: index of the column loop in progress
    exit_code,        \* verify_data: process exit status, NotExited while running
    disk,             \* pipeline: the CSV files of the working directory, by name
    stage_exit        \* pipeline: how each script of the chain ended

statsVars == <<input_file, data, stats_dict, report>>
elapsedVars == <<pickup_time, dropoff_time, time_diff, expected_elapsed>>
idVars == <<num_ids, used_ids, all_ids>>
verifyVars == <<raw_df, rel_df, fmt_df, loop_i, exit_code>>
pipeVars == <<disk, stage_exit>>

vars == <<pc, console, statsVars, elapsedVars, idVars, verifyVars, pipeVars>>

-----------------------------------------------------------------------------
(* Bounds *)

MaxRows == 2      \* rows of formatted_data.csv
MaxCols == 2      \* columns of formatted_data.csv
MaxVal == 1       \* largest integer literal in a cell of formatted_data.csv
MaxStatLen == 4   \* length of a column handed to the statistics engine alone
MaxStatVal == 3   \* largest value in such a column

-----------------------------------------------------------------------------
(* Fixed-point numbers *)

Scale == 10000

F(v) == [t |-> "float64", nan |-> FALSE, v |-> v]
I64(v) == [t |-> "int64", nan |-> FALSE, v |-> v]
PyInt(v) == [t |-> "int", nan |-> FALSE, v |-> v]
NaN == [t |-> "float64", nan |-> TRUE, v |-> 0]
None == [t |-> "NoneType", nan |-> FALSE, v |-> 0]

Abs(x) == IF x < 0 THEN -x ELSE x

\* floor(a * 10^k / b) for a >= 0, b > 0, by long division (keeps every
\* intermediate below 2^31)
RECURSIVE Pow10(_)
Pow10(k) == IF k = 0 THEN 1 ELSE 10 * Pow10(k - 1)

RECURSIVE LongDiv(_, _, _)
LongDiv(a, b, k) ==
    IF k = 0 THEN a \div b
    ELSE (a \div b) * Pow10(k) + LongDiv((a % b) * 10, b, k - 1)

\* a / b in units of 1/Scale, truncated toward zero
Ratio(a, b) == IF a < 0 THEN -LongDiv(-a, b, 4) ELSE LongDiv(a, b, 4)

\* floor(sqrt(x)) by bisection
RECURSIVE SqrtBetween(_, _, _)
SqrtBetween(x, lo, hi) ==
    IF hi - lo <= 1 THEN lo
    ELSE LET mid == (lo + hi) \div 2
         IN  IF mid * mid <= x THEN SqrtBetween(x, mid, hi)
             ELSE SqrtBetween(x, lo, mid)

ISqrt(x) == SqrtBetween(x, 0, 46341)

-----------------------------------------------------------------------------
(* Sequences *)

RECURSIVE SumSeq(_)
SumSeq(s) == IF s = <<>> THEN 0 ELSE Head(s) + SumSeq(Tail(s))

RECURSIVE Insert(_, _)
Insert(x, s) ==
    IF s = <<>> THEN <<x>>
    ELSE IF x <= Head(s) THEN <<x>> \o s
    ELSE <<Head(s)>> \o Insert(x, Tail(s))

RECURSIVE SortValues(_)
SortValues(s) == IF s = <<>> THEN <<>> ELSE Insert(Head(s), SortValues(Tail(s)))

Count(s, x) == Cardinality({i \in 1..Len(s) : s[i] = x})

SeqMin(s) == CHOOSE x \in {s[i] : i \in 1..Len(s)} :
                 \A j \in 1..Len(s) : x <= s[j]
SeqMax(s) == CHOOSE x \in {s[i] : i \in 1..Len(s)} :
                 \A j \in 1..Len(s) : x >= s[j]

-----------------------------------------------------------------------------
(* pd.read_csv: cells of the file and dtype inference *)

IntCell(n) == [k |-> "int", v |-> n]
FloatCell(n) == [k |-> "float", v |-> n]   \* the literal 'n.0'
EmptyCell == [k |-> "empty", v |-> 0]
BadCell == [k |-> "text", v |-> 0]

DataColumns ==
    <<"trip_id", "passenger_count", "trip_distance", "fare_amount", "elapsed_time">>

\* dtype pandas infers for a column of cells: a header-only file gives object
\* columns, any non-numeric text makes the whole column object, an empty
\* cell or a literal with a decimal point makes it float64
InferDtype(cells) ==
    IF Len(cells) = 0 THEN "object"
    ELSE IF \E i \in 1..Len(cells) : cells[i].k = "text" THEN "object"
    ELSE IF \E i \in 1..Len(cells) : cells[i].k \in {"empty", "float"}
         THEN "float64"
    ELSE "int64"

ReadCsv(csv) ==
    [columns |-> csv.header,
     dtype |-> [c \in 1..Len(csv.header) |-> InferDtype(csv.cols[c])],
     values |-> csv.cols]

-----------------------------------------------------------------------------
(* calculate_statistics *)

all_stats ==
    <<"mean", "median", "mode", "range", "variance", "std_dev", "iqr",
      "min", "max", "q1", "q2", "q3", "p10", "p90", "skewness", "kurtosis">>

StatNames == {all_stats[i] : i \in 1..Len(all_stats)}

select_dtypes(df) ==
    SelectSeq([c \in 1..Len(df.columns) |-> c],
              LAMBDA c : df.dtype[c] \in {"int64", "float64"})

\* Series.dropna: the non-missing values of the column, in row order
dropna(cells) ==
    LET kept == SelectSeq(cells, LAMBDA c : c.k \in {"int", "float"})
    IN  [i \in 1..Len(kept) |-> kept[i].v]

\* interpolation at rank position p*(n-1) of the values in row order
QuantileUnsorted(x, k) ==
    LET n == Len(x)
        pos == k * (n - 1)
        lo == pos \div 20
        fr == pos % 20
        hi == IF lo + 1 < n THEN lo + 1 ELSE lo
    IN  x[lo + 1] * Scale + ((x[hi + 1] - x[lo + 1]) * fr * Scale) \div 20

\* Series.quantile(k/20), linear interpolation at rank position p*(n-1);
\* the result is in units of 1/Scale
Quantile(x, k) ==
    LET sorted == SortValues(x)
        n == Len(x)
        pos == k * (n - 1)
        lo == pos \div 20
        fr == pos % 20
        hi == IF lo + 1 < n THEN lo + 1 ELSE lo
    IN  sorted[lo + 1] * Scale
          + ((sorted[hi + 1] - sorted[lo + 1]) * fr * Scale) \div 20

\* Series.median: middle value, or mean of the two middle values
Median(x) ==
    LET sorted == SortValues(x)
        n == Len(x)
    IN  IF n % 2 = 1 THEN sorted[(n + 1) \div 2] * Scale
        ELSE ((sorted[n \div 2] + sorted[n \div 2 + 1]) * Scale) \div 2

\* Series.mode().iloc[0]: modes are returned sorted, so the smallest of the
\* most frequent values
Mode(x) ==
    LET vals == {x[i] : i \in 1..Len(x)}
        best == {v \in vals : \A w \in vals : Count(x, v) >= Count(x, w)}
    IN  CHOOSE v \in best : \A w \in best : v <= w

Mean(x) == Ratio(SumSeq(x), Len(x))

\* deviations from the mean scaled by n: n*x[i] - sum(x)
Dev(x) == [i \in 1..Len(x) |-> Len(x) * x[i] - SumSeq(x)]

SumPow(d, p) ==
    SumSeq([i \in 1..Len(d) |->
              IF p = 2 THEN d[i] * d[i]
              ELSE IF p = 3 THEN d[i] * d[i] * d[i]
              ELSE d[i] * d[i] * d[i] * d[i]])

\* Series.var: sample variance, NaN for a single value
Variance(x) ==
    LET n == Len(x)
    IN  IF n = 1 THEN NaN
        ELSE F(Ratio(SumPow(Dev(x), 2), n * n * (n - 1)))

\* Series.std: square root of the sample variance
StdDev(x) ==
    LET var == Variance(x)
    IN  IF var.nan THEN NaN ELSE F(ISqrt(var.v * Scale))

\* scipy.stats.skew (biased): m3 / m2^1.5, NaN when m2 = 0 (a column of
\* equal values or a single value), as current scipy returns it
Skewness(x) ==
    LET n == Len(x)
        S2 == SumPow(Dev(x), 2)
        S3 == SumPow(Dev(x), 3)
    IN  IF S2 = 0 THEN NaN
        ELSE LET t == ISqrt(LongDiv(n, S2, 8))     \* sqrt(n / S2) * Scale
             IN  F(IF S3 < 0 THEN -(((-S3) * t) \div S2) ELSE (S3 * t) \div S2)

\* scipy.stats.kurtosis (Fisher, biased): m4 / m2^2 - 3, NaN when m2 = 0
Kurtosis(x) ==
    LET n == Len(x)
        S2 == SumPow(Dev(x), 2)
        S4 == SumPow(Dev(x), 4)
    IN  IF S2 = 0 THEN NaN
        ELSE F(Ratio(n * S4, S2 * S2) - 3 * Scale)

\* value of the column's own dtype (min, max, mode, range keep it)
Native(dtype, n) == IF dtype = "int64" THEN I64(n * Scale) ELSE F(n * Scale)

col_stats(x, dtype) ==
    LET q1 == Quantile(x, 5)
        q3 == Quantile(x, 15)
    IN  [s \in StatNames |->
          CASE s = "mean" -> F(Mean(x))
            [] s = "median" -> F(Median(x))
            [] s = "mode" -> Native(dtype, Mode(x))
            [] s = "range" -> Native(dtype, SeqMax(x) - SeqMin(x))
            [] s = "variance" -> Variance(x)
            [] s = "std_dev" -> StdDev(x)
            [] s = "iqr" -> F(q3 - q1)
            [] s = "min" -> Native(dtype, SeqMin(x))
            [] s = "max" -> Native(dtype, SeqMax(x))
            [] s = "q1" -> F(q1)
            [] s = "q2" -> F(Quantile(x, 10))
            [] s = "q3" -> F(q3)
            [] s = "p10" -> F(Quantile(x, 2))
            [] s = "p90" -> F(Quantile(x, 18))
            [] s = "skewness" -> Skewness(x)
            [] s = "kurtosis" -> Kurtosis(x)]

\* the report: one entry per numeric column that has a value left after
\* dropna, in column order
calculate_statistics(df) ==
    LET numerical_cols == select_dtypes(df)
        analysed == SelectSeq(numerical_cols,
                              LAMBDA c : Len(dropna(df.values[c])) # 0)
    IN  [i \in 1..Len(analysed) |->
          [col |-> df.columns[analysed[i]],
           stats |-> col_stats(dropna(df.values[analysed[i]]),
                               df.dtype[analysed[i]])]]

-----------------------------------------------------------------------------
(* generate_markdown_report: number formatting *)

DigitChars == <<"0", "1", "2", "3", "4", "5", "6", "7", "8", "9">>

\* decimal digits of n >= 0, most significant first
RECURSIVE Digits(_)
Digits(n) ==
    IF n < 10 THEN <<DigitChars[n + 1]>>
    ELSE Digits(n \div 10) \o <<DigitChars[(n % 10) + 1]>>

\* the last k decimal digits of n, zero padded
RECURSIVE PadDigits(_, _)
PadDigits(n, k) ==
    IF k = 0 THEN <<>>
    ELSE PadDigits(n \div 10, k - 1) \o <<DigitChars[(n % 10) + 1]>>

Sign(v) == IF v < 0 THEN <<"-">> ELSE <<>>

\* a / 10^k rounded to nearest, ties to even
RoundDiv(a, k) ==
    LET q == a \div Pow10(k)
        r == a % Pow10(k)
        half == Pow10(k) \div 2
    IN  IF k = 0 THEN a
        ELSE IF r > half \/ (r = half /\ q % 2 = 1) THEN q + 1
        ELSE q

\* f"{value:.4f}" for a value of v/Scale
FormatFixed(v) ==
    Sign(v) \o Digits(Abs(v) \div Scale) \o <<".">> \o PadDigits(Abs(v) % Scale, 4)

\* f"{value:.4e}" for a value of v/Scale: d.dddde+XX
FormatSci(v) ==
    LET a == Abs(v)
        nd == Len(Digits(a))
        m0 == IF nd <= 5 THEN a * Pow10(5 - nd) ELSE RoundDiv(a, nd - 5)
        carry == m0 = 100000
        m == IF carry THEN 10000 ELSE m0
        e == IF a = 0 THEN 0 ELSE (nd - 5) + (IF carry THEN 1 ELSE 0)
    IN  Sign(v) \o <<DigitChars[(m \div 10000) + 1]>> \o <<".">>
          \o PadDigits(m % 10000, 4)
          \o <<"e", IF e < 0 THEN "-" ELSE "+">> \o PadDigits(Abs(e), 2)

\* f"{value}" of a value that is not an int or float instance
FormatStr(value) ==
    IF value.t = "NoneType" THEN <<"N", "o", "n", "e">>
    ELSE Sign(value.v) \o Digits(Abs(value.v) \div Scale)

\* isinstance(value, (int, float))
IsIntOrFloat(value) == value.t \in {"int", "float64"}

\* abs(value) < 0.01 or abs(value) > 1000; False for NaN
UseScientific(value) ==
    /\ ~value.nan
    /\ \/ Abs(value.v) < Scale \div 100
       \/ Abs(value.v) > 1000 * Scale

FormatCell(value) ==
    IF IsIntOrFloat(value)
    THEN IF UseScientific(value) THEN FormatSci(value.v)
         ELSE IF value.nan THEN <<"n", "a", "n">>
         ELSE FormatFixed(value.v)
    ELSE FormatStr(value)

-----------------------------------------------------------------------------
(* generate_markdown_report: interpretation bands *)

\* the boundary taken into the outer band: value >= t
GtOrEqual(value, t) == ~value.nan /\ value.v >= t

\* value > t and value < t for a threshold of t/Scale; False for NaN
Gt(value, t) == ~value.nan /\ value.v > t
Lt(value, t) == ~value.nan /\ value.v < t

skew_interp(skewness) ==
    IF Gt(skewness, Scale \div 2) THEN "strong positive skew (right-tailed)"
    ELSE IF Gt(skewness, Scale \div 10) THEN "moderate positive skew"
    ELSE IF Lt(skewness, -(Scale \div 2)) THEN "strong negative skew (left-tailed)"
    ELSE IF Lt(skewness, -(Scale \div 10)) THEN "moderate negative skew"
    ELSE "approximately symmetric"

kurt_interp(kurtosis) ==
    IF Gt(kurtosis, Scale) THEN "very heavy tails (more outliers than normal)"
    ELSE IF Gt(kurtosis, Scale \div 2) THEN "heavy tails"
    ELSE IF Lt(kurtosis, -Scale) THEN "very light tails (fewer outliers than normal)"
    ELSE IF Lt(kurtosis, -(Scale \div 2)) THEN "light tails"
    ELSE "near normal tails"

-----------------------------------------------------------------------------
(* generate_markdown_report: the document, one record per line written *)

descriptions ==
    [s \in StatNames |->
       CASE s = "mean" -> "Average value"
         [] s = "median" -> "Middle value when ordered"
         [] s = "mode" -> "Most frequent value"
         [] s = "range" -> "Difference between max and min"
         [] s = "variance" -> "Average squared deviation from the mean"
         [] s = "std_dev" -> "Square root of variance (spread around mean)"
         [] s = "iqr" -> "Middle 50% spread (Q3 - Q1)"
         [] s = "min" -> "Smallest value"
         [] s = "max" -> "Largest value"
         [] s = "q1" -> "First quartile (25th percentile)"
         [] s = "q2" -> "Second quartile (50th percentile, median)"
         [] s = "q3" -> "Third quartile (75th percentile)"
         [] s = "p10" -> "10th percentile"
         [] s = "p90" -> "90th percentile"
         [] s = "skewness" -> "Measure of asymmetry (>0: right skew, <0: left skew)"
         [] s = "kurtosis" -> "Measure of 'tailedness' (>0: heavy tails, <0: light tails)"]

columns(sd) == [i \in 1..Len(sd) |-> sd[i].col]

HeaderLines(sd) ==
    << [kind |-> "title", text |-> "# Descriptive Statistics Report"],
       [kind |-> "generated_on"],
       [kind |-> "heading", text |-> "## Summary"],
       [kind |-> "text",
        text |-> "This report contains descriptive statistics for the numerical columns in the dataset."],
       [kind |-> "count", text |-> "Number of numerical columns analyzed: ",
        n |-> Len(sd)],
       [kind |-> "heading", text |-> "## Descriptive Statistics"],
       [kind |-> "table_header", columns |-> columns(sd)],
       [kind |-> "table_separator", n |-> Len(sd)] >>

\* one row per statistic, written whatever the number of columns
TableRow(sd, stat) ==
    [kind |-> "row", stat |-> stat,
     cells |-> [i \in 1..Len(sd) |-> FormatCell(sd[i].stats[stat])],
     description |-> descriptions[stat]]

TableRows(sd) == [k \in 1..Len(all_stats) |-> TableRow(sd, all_stats[k])]

RECURSIVE Interpretations(_)
Interpretations(sd) ==
    IF sd = <<>> THEN <<>>
    ELSE << [kind |-> "subheading", col |-> Head(sd).col],
            [kind |-> "sentence", col |-> Head(sd).col,
             skew |-> skew_interp(Head(sd).stats["skewness"]),
             kurt |-> kurt_interp(Head(sd).stats["kurtosis"])] >>
         \o Interpretations(Tail(sd))

generate_markdown_report(sd) ==
    HeaderLines(sd) \o TableRows(sd) \o << [kind |-> "blank"] >>
      \o << [kind |-> "heading", text |-> "## Interpretations"] >>
      \o Interpretations(sd)

-----------------------------------------------------------------------------
(* generate_stats_report.main *)

NoFrame == [columns |-> <<>>, dtype |-> <<>>, values |-> <<>>]

Absent == [exists |-> FALSE, lines |-> <<>>]
OldReport == [exists |-> TRUE, lines |-> << [kind |-> "old"] >>]

\* open(output_file, 'w') followed by the writes: the file is created or
\* truncated and holds exactly the lines of this run
WriteReport(sd) == [exists |-> TRUE, lines |-> generate_markdown_report(sd)]

\* values of the variables of the scripts that are not running
NotExited == 0 - 1
NoTable == [columns |-> <<>>, rows |-> <<>>]

IdleStats ==
    /\ input_file = [status |-> "missing", header |-> <<>>, cols |-> <<>>]
    /\ data = NoFrame
    /\ stats_dict = <<>>
    /\ report = Absent

IdleElapsed ==
    /\ pickup_time = [H |-> 0, M |-> 0, S |-> 0]
    /\ dropoff_time = [H |-> 0, M |-> 0, S |-> 0]
    /\ time_diff = 0
    /\ expected_elapsed = 0

IdleIds ==
    /\ num_ids = 0
    /\ used_ids = {}
    /\ all_ids = <<>>

IdleVerify ==
    /\ raw_df = NoTable
    /\ rel_df = NoTable
    /\ fmt_df = NoTable
    /\ loop_i = 0
    /\ exit_code = NotExited

IdlePipe ==
    /\ disk = <<>>
    /\ stage_exit = <<>>

Cells == {IntCell(n) : n \in 0..MaxVal} \cup {EmptyCell, BadCell}

Prefix(s, n) == [i \in 1..n |-> s[i]]

\* a trip_id cell: text that is no number
IdColumn(nr) == [r \in 1..nr |-> BadCell]

\* formatted_data.csv that cannot be read: no file, or one pandas cannot parse
UnreadableFiles ==
    { [status |-> st, header |-> <<>>, cols |-> <<>>] :
        st \in {"missing", "unparseable"} }

\* formatted_data.csv with a header and rows of cells, the first column
\* being trip_id
ReadableFile(nc, nr, cs) ==
    [status |-> "ok", header |-> Prefix(DataColumns, nc),
     cols |-> <<IdColumn(nr)>> \o cs]

\* the except branch without its return: main goes on to the statistics
AfterReadErrorNoReturn == "calculate"

\* where main goes after the except branch: it returns
AfterReadError == "returned"

\* lines 183-191: read the input, or report the failure and return
ReadInput ==
    /\ pc = "main"
    /\ IF input_file.status = "ok"
       THEN /\ data' = ReadCsv(input_file)
            /\ console' = console \o <<"Reading data", "Successfully read data">>
            /\ pc' = "calculate"
       ELSE /\ data' = data
            /\ console' = console \o <<"Reading data", "Error reading CSV file">>
            /\ pc' = AfterReadError
    /\ UNCHANGED <<input_file, stats_dict, report, elapsedVars, idVars, verifyVars, pipeVars>>

\* lines 194-195
CalculateStatistics ==
    /\ pc = "calculate"
    /\ console' = Append(console, "Calculating statistics")
    /\ stats_dict' = calculate_statistics(data)
    /\ pc' = "render"
    /\ UNCHANGED <<input_file, data, report, elapsedVars, idVars, verifyVars, pipeVars>>

\* lines 198-201
GenerateReport ==
    /\ pc = "render"
    /\ report' = WriteReport(stats_dict)
    /\ console' = console \o <<"Generating markdown report",
                               "Report successfully generated">>
    /\ pc' = "returned"
    /\ UNCHANGED <<input_file, data, stats_dict, elapsedVars, idVars, verifyVars, pipeVars>>

MainInit ==
    /\ IdleElapsed /\ IdleIds /\ IdleVerify /\ IdlePipe
    /\ pc = "main"
    /\ \/ input_file \in UnreadableFiles
       \/ \E nc \in 1..MaxCols, nr \in 0..MaxRows :
             \E cs \in [1..(nc - 1) -> [1..nr -> Cells]] :
                input_file = ReadableFile(nc, nr, cs)
    /\ data = NoFrame
    /\ stats_dict = <<>>
    /\ report \in {Absent, OldReport}
    /\ console = <<>>

MainNext == ReadInput \/ CalculateStatistics \/ GenerateReport

SpecMain == MainInit /\ [][MainNext]_vars

Spec == SpecMain

-----------------------------------------------------------------------------
(* The statistics engine and the renderer applied to one in-memory column *)

StatCells == {IntCell(n) : n \in 0..MaxStatVal} \cup {EmptyCell}

OneColumnFrame(cells) ==
    [columns |-> <<"fare_amount">>,
     dtype |-> <<InferDtype(cells)>>,
     values |-> <<cells>>]

StatsInit ==
    /\ IdleElapsed /\ IdleIds /\ IdleVerify /\ IdlePipe
    /\ pc = "calculate"
    /\ input_file = [status |-> "ok", header |-> <<>>, cols |-> <<>>]
    /\ \E n \in 1..MaxStatLen : \E cells \in [1..n -> StatCells] :
          data = OneColumnFrame(cells)
    /\ stats_dict = <<>>
    /\ report = Absent
    /\ console = <<>>

StatsNext == CalculateStatistics \/ GenerateReport

SpecStats == StatsInit /\ [][StatsNext]_vars

-----------------------------------------------------------------------------
(* The renderer applied to a report of given values *)

MaxRenderCols == 2

CellValues ==
    << F(50), F(99), F(100), F(101), F(5001234), F(1000 * Scale),
       F(1000 * Scale + 1), PyInt(2000 * Scale), PyInt(5 * Scale),
       I64(3 * Scale), I64(2000 * Scale), F(0), F(-50), F(-2000 * Scale),
       F(12345678), PyInt(0), NaN, None >>

ShapeValues ==
    << F(-10001), F(-10000), F(-5001), F(-5000), F(-1001), F(-1000), F(0),
       F(1000), F(1001), F(5000), F(5001), F(10000), F(10001), NaN >>

Rotate(s, k) == s[((k - 1) % Len(s)) + 1]

StatIndex(stat) == CHOOSE k \in 1..Len(all_stats) : all_stats[k] = stat

\* a report of nc columns: the cells walk through CellValues from position
\* base, the shape statistics through ShapeValues from js and jk
GivenReport(nc, base, js, jk) ==
    [c \in 1..nc |->
       [col |-> DataColumns[c + 1],
        stats |-> [s \in StatNames |->
                     IF s = "skewness" THEN Rotate(ShapeValues, js + c - 1)
                     ELSE IF s = "kurtosis" THEN Rotate(ShapeValues, jk + c - 1)
                     ELSE Rotate(CellValues, base + c + StatIndex(s))]]]

RenderInit ==
    /\ IdleElapsed /\ IdleIds /\ IdleVerify /\ IdlePipe
    /\ pc = "render"
    /\ input_file = [status |-> "ok", header |-> <<>>, cols |-> <<>>]
    /\ data = NoFrame
    /\ \E nc \in 0..MaxRenderCols, base \in 1..Len(CellValues),
          js \in 1..Len(ShapeValues), jk \in 1..Len(ShapeValues) :
          stats_dict = GivenReport(nc, base, js, jk)
    /\ report = Absent
    /\ console = <<>>

RenderNext == GenerateReport

SpecRender == RenderInit /\ [][RenderNext]_vars

-----------------------------------------------------------------------------
(* Reading the written document *)

\* statistics_report.md holds the document of this run
ReportWritten ==
    /\ report.exists
    /\ report.lines # <<>>
    /\ report.lines[1].kind = "title"

LinesOfKind(kind) == {k \in 1..Len(report.lines) : report.lines[k].kind = kind}

IsDigit(ch) == \E d \in 1..10 : DigitChars[d] = ch

\* [-]d.dddde(+|-)dd
IsSciText(c) ==
    \E p \in 1..Len(c) :
        /\ c[p] = "."
        /\ Len(c) = p + 8
        /\ p = 2 \/ (p = 3 /\ c[1] = "-")
        /\ IsDigit(c[p - 1])
        /\ \A k \in 1..4 : IsDigit(c[p + k])
        /\ c[p + 5] = "e"
        /\ c[p + 6] \in {"+", "-"}
        /\ IsDigit(c[p + 7]) /\ IsDigit(c[p + 8])

\* [-]d...d.dddd
IsFixedText(c) ==
    \E p \in 2..Len(c) :
        /\ c[p] = "."
        /\ Len(c) = p + 4
        /\ \A k \in 1..4 : IsDigit(c[p + k])
        /\ \A k \in 1..(p - 1) : IsDigit(c[k]) \/ (k = 1 /\ c[k] = "-" /\ p > 2)

IsNumber(value) == value.t \in {"int", "int64", "float64"} /\ ~value.nan

OutsideFixedRange(value) ==
    Abs(value.v) < Scale \div 100 \/ Abs(value.v) > 1000 * Scale

-----------------------------------------------------------------------------
(* C1: in the written table every cell whose value is a number, of any     *)
(* numeric type, is in scientific notation with 4 fractional digits when   *)
(* its absolute value is < 0.01 or > 1000 and in fixed point with 4        *)
(* decimals otherwise; only non-numeric values are written in plain form.  *)
C1_EveryNumberFormatted ==
    ReportWritten =>
        \A k \in LinesOfKind("row") : \A i \in 1..Len(stats_dict) :
            LET value == stats_dict[i].stats[report.lines[k].stat]
                cell == report.lines[k].cells[i]
            IN  IF IsNumber(value)
                THEN IF OutsideFixedRange(value) THEN IsSciText(cell)
                     ELSE IsFixedText(cell)
                ELSE ~IsSciText(cell) /\ ~IsFixedText(cell)

(* C2: the document written for an empty report states 0 analysed columns  *)
(* and has no statistic row and no interpretation subsection.              *)
C2_EmptyReportHasNoRows ==
    (ReportWritten /\ stats_dict = <<>>) =>
        /\ \A k \in LinesOfKind("count") : report.lines[k].n = 0
        /\ LinesOfKind("count") # {}
        /\ LinesOfKind("row") = {}
        /\ LinesOfKind("subheading") = {}
        /\ LinesOfKind("sentence") = {}

-----------------------------------------------------------------------------
(* C5: one interpretation sentence per analysed column, its skewness band  *)
(* and kurtosis band chosen by the intervals (boundaries excluded from the *)
(* outer band): skewness > 0.5, (0.1, 0.5], [-0.1, 0.1], [-0.5, -0.1),     *)
(* < -0.5; kurtosis > 1, (0.5, 1], [-0.5, 0.5], [-1, -0.5), < -1.          *)
SkewBand(v) ==
    CASE v > 5000 -> "strong positive skew (right-tailed)"
      [] v > 1000 /\ v <= 5000 -> "moderate positive skew"
      [] v >= -1000 /\ v <= 1000 -> "approximately symmetric"
      [] v >= -5000 /\ v < -1000 -> "moderate negative skew"
      [] v < -5000 -> "strong negative skew (left-tailed)"

KurtBand(v) ==
    CASE v > 10000 -> "very heavy tails (more outliers than normal)"
      [] v > 5000 /\ v <= 10000 -> "heavy tails"
      [] v >= -5000 /\ v <= 5000 -> "near normal tails"
      [] v >= -10000 /\ v < -5000 -> "light tails"
      [] v < -10000 -> "very light tails (fewer outliers than normal)"

SentencesFor(col) ==
    {k \in LinesOfKind("sentence") : report.lines[k].col = col}

C5_OneBandPerColumn ==
    ReportWritten =>
        /\ Cardinality(LinesOfKind("sentence")) = Len(stats_dict)
        /\ \A i \in 1..Len(stats_dict) :
             LET skew == stats_dict[i].stats["skewness"]
                 kurt == stats_dict[i].stats["kurtosis"]
             IN  /\ Cardinality(SentencesFor(stats_dict[i].col)) = 1
                 /\ \A k \in SentencesFor(stats_dict[i].col) :
                      /\ ~skew.nan => report.lines[k].skew = SkewBand(skew.v)
                      /\ ~kurt.nan => report.lines[k].kurt = KurtBand(kurt.v)

\* a column with skewness exactly 0.5 and kurtosis exactly -1 was rendered
C5_BoundaryRendered ==
    /\ ReportWritten
    /\ \E i \in 1..Len(stats_dict) : \E k \in SentencesFor(stats_dict[i].col) :
         /\ stats_dict[i].stats["skewness"] = F(5000)
         /\ stats_dict[i].stats["kurtosis"] = F(-10000)
         /\ report.lines[k].skew = "moderate positive skew"
         /\ report.lines[k].kurt = "light tails"

-----------------------------------------------------------------------------
(* C8: a column with one malformed cell among valid numeric cells is still *)
(* analysed: it has an entry in the report, computed over its valid cells. *)
CellsOfKind(cells, kind) == {r \in 1..Len(cells) : cells[r].k = kind}

C8_MalformedCellTreatedAsMissing ==
    (pc \in {"render", "returned"} /\ input_file.status = "ok") =>
        \A c \in 1..Len(input_file.header) :
            LET cells == input_file.cols[c]
            IN  (/\ Cardinality(CellsOfKind(cells, "text")) = 1
                 /\ CellsOfKind(cells, "int") # {})
                => \E i \in 1..Len(stats_dict) :
                     /\ stats_dict[i].col = input_file.header[c]
                     /\ stats_dict[i].stats = col_stats(dropna(cells), "float64")

-----------------------------------------------------------------------------
(* C9: when the input cannot be read or parsed, main stops before the      *)
(* statistics and the renderer run: the output file is left as it was and  *)
(* the success message is never printed.                                   *)
Printed(msg) == \E k \in 1..Len(console) : console[k] = msg

C9_ReadFailureHalts ==
    /\ [](input_file.status # "ok" =>
            /\ pc \in {"main", "returned"}
            /\ stats_dict = <<>>
            /\ report \in {Absent, OldReport}
            /\ ~Printed("Calculating statistics")
            /\ ~Printed("Report successfully generated")
            /\ pc = "returned" => Printed("Error reading CSV file"))
    /\ [][input_file.status # "ok" => report' = report]_vars

\* main returned after a failed read and the old report is still there
C9_FailedReadReturned ==
    /\ input_file.status = "unparseable"
    /\ pc = "returned"
    /\ Printed("Error reading CSV file")
    /\ report = OldReport

-----------------------------------------------------------------------------
(* C10: every column entry has min <= p10 <= q1 <= q2 <= q3 <= p90 <= max, *)
(* q2 = median, iqr = q3 - q1 and range = max - min.                       *)
C10_QuantilesOrdered ==
    \A i \in 1..Len(stats_dict) :
        LET st == stats_dict[i].stats
        IN  /\ st["min"].v <= st["p10"].v
            /\ st["p10"].v <= st["q1"].v
            /\ st["q1"].v <= st["q2"].v
            /\ st["q2"].v <= st["q3"].v
            /\ st["q3"].v <= st["p90"].v
            /\ st["p90"].v <= st["max"].v
            /\ st["q2"].v = st["median"].v
            /\ st["iqr"].v = st["q3"].v - st["q1"].v
            /\ st["range"].v = st["max"].v - st["min"].v
            /\ \A s \in {"min", "p10", "q1", "q2", "q3", "p90", "max",
                         "median", "iqr", "range"} : ~st[s].nan

\* an entry whose quantiles are all interpolated and strictly increasing
C10_InterpolatedEntry ==
    \E i \in 1..Len(stats_dict) :
        LET st == stats_dict[i].stats
        IN  /\ st["min"].v < st["p10"].v
            /\ st["p10"].v < st["q1"].v
            /\ st["q1"].v < st["q2"].v
            /\ st["q2"].v < st["q3"].v
            /\ st["q3"].v < st["p90"].v
            /\ st["p90"].v < st["max"].v
            /\ st["q1"].v % Scale # 0

-----------------------------------------------------------------------------
(* format_data.calculate_elapsed_time and its recomputation in             *)
(* verify_data.verify_format.  A time of day 'HH:MM:SS' is a record        *)
(* [H, M, S]; strptime gives a datetime on 1900-01-01, modelled as         *)
(* [day, sec] with day counted from that date.                             *)

MaxOffset == 60     \* seconds around midnight covered by the time samples

SecondsPerDay == 86400

TimeOfDay(sec) ==
    [H |-> sec \div 3600, M |-> (sec % 3600) \div 60, S |-> sec % 60]

TimeSamples ==
    {TimeOfDay(sec) : sec \in (0..MaxOffset)
                              \cup ((SecondsPerDay - MaxOffset)..(SecondsPerDay - 1))
                              \cup {SecondsPerDay \div 2}}

\* datetime.strptime(t, '%H:%M:%S')
strptime(t) == [day |-> 0, sec |-> t.H * 3600 + t.M * 60 + t.S]

DatetimeLess(a, b) == a.day < b.day \/ (a.day = b.day /\ a.sec < b.sec)

AddDays(dt, n) == [day |-> dt.day + n, sec |-> dt.sec]

\* (a - b).total_seconds()
total_seconds(a, b) == (a.day - b.day) * SecondsPerDay + (a.sec - b.sec)

\* the rollover test taken as dropoff <= pickup
calculate_elapsed_time_rollover_on_equal(pickup, dropoff) ==
    LET pickup_dt == strptime(pickup)
        dropoff_dt == strptime(dropoff)
        rolled == IF ~DatetimeLess(pickup_dt, dropoff_dt)
                  THEN AddDays(dropoff_dt, 1) ELSE dropoff_dt
    IN  total_seconds(rolled, pickup_dt)

\* format_data.py lines 52-65
calculate_elapsed_time(pickup, dropoff) ==
    LET pickup_dt == strptime(pickup)
        dropoff_dt == strptime(dropoff)
        rolled == IF DatetimeLess(dropoff_dt, pickup_dt)
                  THEN AddDays(dropoff_dt, 1) ELSE dropoff_dt
    IN  total_seconds(rolled, pickup_dt)

\* verify_data.py lines 125-133
recompute_elapsed(pickup_str, dropoff_str) ==
    LET pickup == strptime(pickup_str)
        dropoff == strptime(dropoff_str)
    IN  IF DatetimeLess(dropoff, pickup)
        THEN total_seconds(AddDays(dropoff, 1), pickup)
        ELSE total_seconds(dropoff, pickup)

\* format_data.py line 83-86, for one row
FormatElapsed ==
    /\ pc = "format_row"
    /\ time_diff' = calculate_elapsed_time(pickup_time, dropoff_time)
    /\ pc' = "verify_row"
    /\ UNCHANGED <<console, pickup_time, dropoff_time, expected_elapsed,
                   statsVars, idVars, verifyVars, pipeVars>>

\* verify_data.py lines 125-133, for the same row
VerifyElapsed ==
    /\ pc = "verify_row"
    /\ expected_elapsed' = recompute_elapsed(pickup_time, dropoff_time)
    /\ pc' = "row_done"
    /\ UNCHANGED <<console, pickup_time, dropoff_time, time_diff,
                   statsVars, idVars, verifyVars, pipeVars>>

ElapsedInit ==
    /\ IdleStats /\ IdleIds /\ IdleVerify /\ IdlePipe
    /\ pc = "format_row"
    /\ console = <<>>
    /\ pickup_time \in TimeSamples
    /\ dropoff_time \in TimeSamples
    /\ time_diff = 0
    /\ expected_elapsed = 0

ElapsedNext == FormatElapsed \/ VerifyElapsed

SpecElapsed == ElapsedInit /\ [][ElapsedNext]_vars

SecondsOf(t) == t.H * 3600 + t.M * 60 + t.S

(* C6: for pickup p and dropoff d (seconds of the day) the elapsed time is *)
(* d - p when d >= p and d - p + 86400 when d < p; it lies in 0..86399 and *)
(* equals (d - p) mod 86400; 23:59:00 -> 00:01:00 gives 120; the           *)
(* verifier's recomputation gives the same value.                          *)
C6_ElapsedIsDifferenceMod86400 ==
    LET p == SecondsOf(pickup_time)
        d == SecondsOf(dropoff_time)
    IN  /\ pc \in {"verify_row", "row_done"} =>
              /\ d >= p => time_diff = d - p
              /\ d < p => time_diff = d - p + 86400
              /\ time_diff \in 0..86399
              /\ time_diff = (d - p) % 86400
              /\ (p = 86340 /\ d = 60) => time_diff = 120
        /\ pc = "row_done" => expected_elapsed = time_diff

\* the midnight rollover example went through both computations
C6_MidnightRollover ==
    /\ pc = "row_done"
    /\ pickup_time = [H |-> 23, M |-> 59, S |-> 0]
    /\ dropoff_time = [H |-> 0, M |-> 1, S |-> 0]
    /\ time_diff = 120
    /\ expected_elapsed = 120

-----------------------------------------------------------------------------
(* format_data.generate_unique_ids and the identifier checks of            *)
(* verify_data.verify_format.  An identifier is the sequence of its        *)
(* characters.                                                             *)

MaxIds == 3       \* largest num_ids
NumOutcomes == 6  \* distinct outcomes of the random draw

id_length == 6

ascii_uppercase ==
    <<"A", "B", "C", "D", "E", "F", "G", "H", "I", "J", "K", "L", "M",
      "N", "O", "P", "Q", "R", "S", "T", "U", "V", "W", "X", "Y", "Z">>

UpperLetters == {ascii_uppercase[k] : k \in 1..26}

RECURSIVE Pow26(_)
Pow26(k) == IF k = 0 THEN 1 ELSE 26 * Pow26(k - 1)

\* the k-th string of id_length upper-case letters, counting from 0
IdNumber(k) ==
    [pos \in 1..id_length |->
       ascii_uppercase[((k \div Pow26(id_length - pos)) % 26) + 1]]

\* the outcomes of ''.join(random.choices(string.ascii_uppercase, k=id_length))
\* the draw is taken from
RandomIds == {IdNumber(k) : k \in 0..(NumOutcomes - 1)}

SeqToSet(s) == {s[k] : k \in 1..Len(s)}

\* the membership test that guards the append, always passing
AlwaysNew(new_id, used) == TRUE

\* new_id not in used_ids
IsNew(new_id, used) == new_id \notin used

\* one iteration of the while loop, lines 29-36
GenerateId ==
    /\ pc = "generating"
    /\ Len(all_ids) < num_ids
    /\ \E new_id \in RandomIds :
          IF IsNew(new_id, used_ids)
          THEN /\ used_ids' = used_ids \cup {new_id}
               /\ all_ids' = Append(all_ids, new_id)
          ELSE UNCHANGED <<used_ids, all_ids>>
    /\ UNCHANGED <<pc, console, num_ids, statsVars, elapsedVars, verifyVars, pipeVars>>

\* the loop condition fails: return all_ids, line 38
ReturnIds ==
    /\ pc = "generating"
    /\ ~(Len(all_ids) < num_ids)
    /\ pc' = "ids_returned"
    /\ UNCHANGED <<console, idVars, statsVars, elapsedVars, verifyVars, pipeVars>>

IdsInit ==
    /\ IdleStats /\ IdleElapsed /\ IdleVerify /\ IdlePipe
    /\ pc = "generating"
    /\ console = <<>>
    /\ num_ids \in 0..MaxIds
    /\ used_ids = {}
    /\ all_ids = <<>>

IdsNext == GenerateId \/ ReturnIds

SpecIds == IdsInit /\ [][IdsNext]_vars

\* verify_data.py lines 83-86: len(trip_ids) != len(set(trip_ids))
HasDuplicateIds(trip_ids) == Len(trip_ids) # Cardinality(SeqToSet(trip_ids))

\* verify_data.py line 91: len(id) == 6 and id.isalpha() and id.isupper();
\* the characters of the model are upper-case letters, lower-case letters
\* and digits
LowerLetters == {"a", "b"}

IsValidId(id) ==
    /\ Len(id) = 6
    /\ \A k \in 1..Len(id) : id[k] \in UpperLetters \cup LowerLetters
    /\ \A k \in 1..Len(id) : id[k] \notin LowerLetters
    /\ \E k \in 1..Len(id) : id[k] \in UpperLetters

invalid_ids(trip_ids) == SelectSeq(trip_ids, LAMBDA id : ~IsValidId(id))

(* C7: after every iteration all_ids has no duplicates, holds exactly the  *)
(* elements of used_ids, and each element is 6 upper-case letters; on      *)
(* return it has exactly num_ids elements and passes the verifier's        *)
(* uniqueness and format checks.                                           *)
C7_IdsUniqueAndWellFormed ==
    /\ \A j, k \in 1..Len(all_ids) : j # k => all_ids[j] # all_ids[k]
    /\ SeqToSet(all_ids) = used_ids
    /\ \A k \in 1..Len(all_ids) :
          /\ Len(all_ids[k]) = 6
          /\ \A c \in 1..6 : all_ids[k][c] \in UpperLetters
    /\ pc = "ids_returned" =>
          /\ Len(all_ids) = num_ids
          /\ ~HasDuplicateIds(all_ids)
          /\ invalid_ids(all_ids) = <<>>

\* generate_unique_ids returned the largest list asked for
C7_FullListReturned ==
    /\ pc = "ids_returned"
    /\ num_ids = MaxIds
    /\ Len(all_ids) = MaxIds
    /\ MaxIds >= 2
    /\ all_ids[1] # IdNumber(0)

-----------------------------------------------------------------------------
(* verify_data: tables.  A table is [columns, rows]; a row maps each       *)
(* column name to its cell.  A float cell is [nan, v, e]: the value        *)
(* v + e * 1e-11 with |e| small, or NaN for a missing cell.  A raw         *)
(* timestamp 'mm/dd/YYYY II:MM:SS AM' is [date, I, M, S, p]; a time of day *)
(* is [H, M, S]; an identifier is the sequence of its characters.          *)

MaxTrips == 2     \* rows of raw_data.csv

Tolerance == 10   \* 1e-10 in units of 1e-11

Num(v) == [nan |-> FALSE, v |-> v, e |-> 0]
NumPlus(v, e) == [nan |-> FALSE, v |-> v, e |-> e]
Missing == [nan |-> TRUE, v |-> 0, e |-> 0]

numeric_cols == <<"passenger_count", "trip_distance", "fare_amount">>
datetime_cols == <<"pickup_datetime", "dropoff_datetime">>

HasCol(df, col) == \E k \in 1..Len(df.columns) : df.columns[k] = col

Column(df, col) == [i \in 1..Len(df.rows) |-> df.rows[i][col]]

Min(a, b) == IF a < b THEN a ELSE b

\* abs(a - b) > 1e-10: False as soon as one operand is NaN
ExceedsTol(a, b) ==
    IF a.nan \/ b.nan THEN FALSE
    ELSE IF a.v # b.v THEN TRUE
    ELSE Abs(a.e - b.e) > Tolerance

\* sum(1 for a, b in zip(x, y) if abs(a - b) > 1e-10)
mismatches(x, y) ==
    Cardinality({i \in 1..Min(Len(x), Len(y)) : ExceedsTol(x[i], y[i])})

\* datetime.strptime(dt_str, '%m/%d/%Y %I:%M:%S %p') raises ValueError
RaisesValueError(dt) ==
    ~(dt.I \in 1..12 /\ dt.M \in 0..59 /\ dt.S \in 0..59 /\ dt.p \in {"AM", "PM"})

\* dt.strftime('%H:%M:%S')
strftime_HMS(dt) ==
    [H |-> (dt.I % 12) + (IF dt.p = "PM" THEN 12 ELSE 0), M |-> dt.M, S |-> dt.S]

time_mismatches(raw_times, proc_times) ==
    Cardinality({i \in 1..Min(Len(raw_times), Len(proc_times)) :
                    raw_times[i] # proc_times[i]})

-----------------------------------------------------------------------------
(* verify_data: the files handed to the verifier.  They are built from     *)
(* sample trips as a correct pipeline would write them, with at most one   *)
(* defect in relevant_data.csv / raw_data.csv and at most one in           *)
(* formatted_data.csv.                                                     *)

SampleTrips ==
    << [passenger_count |-> 1, trip_distance |-> 2, fare_amount |-> 5,
        pickup |-> [date |-> "08/15/2015", I |-> 11, M |-> 59, S |-> 0, p |-> "PM"],
        dropoff |-> [date |-> "08/16/2015", I |-> 12, M |-> 1, S |-> 0, p |-> "AM"],
        trip_id |-> <<"A", "A", "A", "A", "A", "A">>],
       [passenger_count |-> 2, trip_distance |-> 3, fare_amount |-> 7,
        pickup |-> [date |-> "08/15/2015", I |-> 6, M |-> 41, S |-> 46, p |-> "PM"],
        dropoff |-> [date |-> "08/15/2015", I |-> 6, M |-> 50, S |-> 0, p |-> "PM"],
        trip_id |-> <<"A", "A", "A", "A", "A", "B">>],
       [passenger_count |-> 1, trip_distance |-> 1, fare_amount |-> 4,
        pickup |-> [date |-> "08/15/2015", I |-> 12, M |-> 0, S |-> 0, p |-> "PM"],
        dropoff |-> [date |-> "08/15/2015", I |-> 12, M |-> 0, S |-> 0, p |-> "PM"],
        trip_id |-> <<"B", "A", "A", "A", "A", "A">>] >>

RawCols == <<"passenger_count", "trip_distance", "fare_amount",
             "pickup_datetime", "dropoff_datetime">>

FmtCols == <<"trip_id", "passenger_count", "trip_distance", "fare_amount",
             "elapsed_time">>

ColSet(cols) == {cols[k] : k \in 1..Len(cols)}

RawRow(t) ==
    [c \in ColSet(RawCols) |->
       CASE c = "passenger_count" -> Num(t.passenger_count)
         [] c = "trip_distance" -> Num(t.trip_distance)
         [] c = "fare_amount" -> Num(t.fare_amount)
         [] c = "pickup_datetime" -> t.pickup
         [] c = "dropoff_datetime" -> t.dropoff]

RelRow(t) ==
    [c \in ColSet(RawCols) |->
       CASE c = "passenger_count" -> Num(t.passenger_count)
         [] c = "trip_distance" -> Num(t.trip_distance)
         [] c = "fare_amount" -> Num(t.fare_amount)
         [] c = "pickup_datetime" -> strftime_HMS(t.pickup)
         [] c = "dropoff_datetime" -> strftime_HMS(t.dropoff)]

FmtRow(t) ==
    [c \in ColSet(FmtCols) |->
       CASE c = "trip_id" -> t.trip_id
         [] c = "passenger_count" -> Num(t.passenger_count)
         [] c = "trip_distance" -> Num(t.trip_distance)
         [] c = "fare_amount" -> Num(t.fare_amount)
         [] c = "elapsed_time" ->
              Num(calculate_elapsed_time(strftime_HMS(t.pickup),
                                         strftime_HMS(t.dropoff)))]

BaseRaw(n) == [columns |-> RawCols, rows |-> [i \in 1..n |-> RawRow(SampleTrips[i])]]
BaseRel(n) == [columns |-> RawCols, rows |-> [i \in 1..n |-> RelRow(SampleTrips[i])]]
BaseFmt(n) == [columns |-> FmtCols, rows |-> [i \in 1..n |-> FmtRow(SampleTrips[i])]]

SetCell(df, r, col, val) ==
    [df EXCEPT !.rows[r] = [c \in DOMAIN df.rows[r] |->
                               IF c = col THEN val ELSE df.rows[r][c]]]

DropLastRow(df) == [df EXCEPT !.rows = SubSeq(df.rows, 1, Len(df.rows) - 1)]

DropColumn(df, col) ==
    [columns |-> SelectSeq(df.columns, LAMBDA c : c # col),
     rows |-> [i \in 1..Len(df.rows) |->
                 [c \in (DOMAIN df.rows[i]) \ {col} |-> df.rows[i][c]]]]

AddColumn(df, col, val) ==
    [columns |-> Append(df.columns, col),
     rows |-> [i \in 1..Len(df.rows) |->
                 [c \in (DOMAIN df.rows[i]) \cup {col} |->
                    IF c = col THEN val ELSE df.rows[i][c]]]]

NoDefect == [kind |-> "none", row |-> 0, col |-> "none"]

ExtractDefects(n) ==
    {NoDefect}
    \cup (IF n >= 1 THEN {[kind |-> "row_missing", row |-> n, col |-> "none"]}
          ELSE {})
    \cup { [kind |-> k, row |-> r, col |-> numeric_cols[c]] :
             k \in {"within_tolerance", "beyond_tolerance", "changed",
                    "lost", "appeared"},
             r \in 1..n, c \in 1..3 }
    \cup { [kind |-> k, row |-> r, col |-> datetime_cols[c]] :
             k \in {"unparseable", "time_wrong"}, r \in 1..n, c \in 1..2 }
    \cup { [kind |-> "column_missing", row |-> 0, col |-> "dropoff_datetime"] }

FormatDefects(n) ==
    {NoDefect}
    \cup (IF n >= 1 THEN {[kind |-> "row_missing", row |-> n, col |-> "none"]}
          ELSE {})
    \cup { [kind |-> "duplicate_id", row |-> r, col |-> "trip_id"] : r \in 2..n }
    \cup { [kind |-> k, row |-> r, col |-> "trip_id"] :
             k \in {"lowercase_id", "short_id"}, r \in 1..n }
    \cup { [kind |-> "column_missing", row |-> 0, col |-> c] :
             c \in {"trip_id", "passenger_count", "trip_distance",
                    "fare_amount", "elapsed_time"} }
    \cup { [kind |-> "column_kept", row |-> 0, col |-> datetime_cols[c]] :
             c \in 1..2 }
    \cup { [kind |-> k, row |-> r, col |-> "elapsed_time"] :
             k \in {"within_tolerance", "changed", "lost"}, r \in 1..n }

RawFile(n, d) ==
    CASE d.kind = "appeared" -> SetCell(BaseRaw(n), d.row, d.col, Missing)
      [] d.kind = "unparseable" ->
           SetCell(BaseRaw(n), d.row, d.col,
                   [BaseRaw(n).rows[d.row][d.col] EXCEPT !.I = 13])
      [] OTHER -> BaseRaw(n)

Defective(df, d) ==
    CASE d.kind = "row_missing" -> DropLastRow(df)
      [] d.kind = "within_tolerance" ->
           SetCell(df, d.row, d.col, NumPlus(df.rows[d.row][d.col].v, Tolerance))
      [] d.kind = "beyond_tolerance" ->
           SetCell(df, d.row, d.col, NumPlus(df.rows[d.row][d.col].v, Tolerance + 1))
      [] d.kind = "changed" ->
           SetCell(df, d.row, d.col, Num(df.rows[d.row][d.col].v + 1))
      [] d.kind = "lost" -> SetCell(df, d.row, d.col, Missing)
      [] d.kind = "time_wrong" ->
           SetCell(df, d.row, d.col,
                   [df.rows[d.row][d.col] EXCEPT !.S = (@ + 1) % 60])
      [] d.kind = "column_missing" -> DropColumn(df, d.col)
      [] d.kind = "column_kept" -> AddColumn(df, d.col, [H |-> 0, M |-> 0, S |-> 0])
      [] d.kind = "duplicate_id" -> SetCell(df, d.row, d.col, df.rows[1][d.col])
      [] d.kind = "lowercase_id" ->
           SetCell(df, d.row, d.col, <<"a", "A", "A", "A", "A", "B">>)
      [] d.kind = "short_id" -> SetCell(df, d.row, d.col, <<"A", "A", "A", "A", "B">>)
      [] OTHER -> df

-----------------------------------------------------------------------------
(* verify_data: the check categories, each evaluated on the files as read. *)
(* The outcome is "pass", "fail" (a NO line and sys.exit(1)) or "crash"    *)
(* (an exception nothing catches: traceback, exit status 1, no verdict).   *)

\* lines 23-25
extract_row_count ==
    IF Len(raw_df.rows) # Len(rel_df.rows) THEN "fail" ELSE "pass"

\* lines 30-39, one column
extract_numeric(col) ==
    IF ~HasCol(rel_df, col) THEN "crash"
    ELSE IF mismatches(Column(raw_df, col), Column(rel_df, col)) # 0 THEN "fail"
    ELSE "pass"

\* lines 45-52, one column
extract_parse(dt_col) ==
    IF \E r \in 1..Len(raw_df.rows) : RaisesValueError(raw_df.rows[r][dt_col])
    THEN "fail" ELSE "pass"

\* lines 54-60, one column
extract_compare(dt_col) ==
    IF ~HasCol(rel_df, dt_col) THEN "crash"
    ELSE LET raw_times == [r \in 1..Len(raw_df.rows) |->
                             strftime_HMS(raw_df.rows[r][dt_col])]
         IN  IF time_mismatches(raw_times, Column(rel_df, dt_col)) # 0 THEN "fail"
             ELSE "pass"

\* lines 83-88
format_duplicate_ids ==
    IF ~HasCol(fmt_df, "trip_id") THEN "crash"
    ELSE IF HasDuplicateIds(Column(fmt_df, "trip_id")) THEN "fail"
    ELSE "pass"

\* lines 91-95
format_id_format ==
    IF invalid_ids(Column(fmt_df, "trip_id")) # <<>> THEN "fail" ELSE "pass"

\* lines 98-100
format_row_count ==
    IF Len(rel_df.rows) # Len(fmt_df.rows) THEN "fail" ELSE "pass"

\* lines 103-107
expected_cols ==
    SelectSeq(rel_df.columns, LAMBDA c : c \notin ColSet(datetime_cols))

missing_cols == SelectSeq(expected_cols, LAMBDA c : ~HasCol(fmt_df, c))

format_expected_cols == IF missing_cols # <<>> THEN "fail" ELSE "pass"

\* lines 110-113
kept_cols == SelectSeq(datetime_cols, LAMBDA c : HasCol(fmt_df, c))

format_datetime_removed == IF kept_cols # <<>> THEN "fail" ELSE "pass"

\* lines 121-137: the rows whose recomputed elapsed time differs
elapsed_errors ==
    {i \in 1..Len(rel_df.rows) :
        ExceedsTol(Num(recompute_elapsed(rel_df.rows[i]["pickup_datetime"],
                                         rel_df.rows[i]["dropoff_datetime"])),
                   fmt_df.rows[i]["elapsed_time"])}

\* lines 122-145
format_elapsed ==
    IF /\ Len(rel_df.rows) > 0
       /\ \/ ~HasCol(rel_df, "pickup_datetime")
          \/ ~HasCol(rel_df, "dropoff_datetime")
          \/ ~HasCol(fmt_df, "elapsed_time")
    THEN "crash"
    ELSE IF Cardinality(elapsed_errors) > 0 THEN "fail"
    ELSE "pass"

-----------------------------------------------------------------------------
(* verify_data: the run, verify_extract followed by verify_format *)

No(check, text, col) == [verdict |-> "NO", check |-> check, text |-> text, col |-> col]
Yes(text) == [verdict |-> "YES", check |-> "none", text |-> text, col |-> "none"]
Info(text) == [verdict |-> "info", check |-> "none", text |-> text, col |-> "none"]

\* a NO line not followed by sys.exit(1): the run goes on to the next check
NoSysExit(next) == [pc |-> next, exit_code |-> NotExited]

\* sys.exit(1): the process ends with status 1
SysExit(next) == [pc |-> "exited", exit_code |-> 1]

\* what a check does with its outcome; a passing check goes on to position
\* next / next_i and prints the lines passed
Settle(outcome, no_line, next, next_i, passed) ==
    CASE outcome = "crash" ->
           /\ pc' = "crashed"
           /\ exit_code' = 1
           /\ UNCHANGED <<console, loop_i>>
      [] outcome = "fail" ->
           /\ console' = Append(console, no_line)
           /\ pc' = SysExit(next).pc
           /\ exit_code' = SysExit(next).exit_code
           /\ loop_i' = IF SysExit(next).pc = next THEN next_i ELSE loop_i
      [] outcome = "pass" ->
           /\ console' = console \o passed
           /\ pc' = next
           /\ loop_i' = next_i
           /\ exit_code' = IF next = "done" THEN 0 ELSE exit_code

VerifyFrame ==
    UNCHANGED <<raw_df, rel_df, fmt_df, statsVars, elapsedVars, idVars, pipeVars>>

XRowCount ==
    /\ pc = "x_rows"
    /\ Settle(extract_row_count, No("x_rows", "Row count mismatch", "none"),
              "x_numeric", 1, <<>>)
    /\ VerifyFrame

XNumeric ==
    /\ pc = "x_numeric"
    /\ LET col == numeric_cols[loop_i]
           last == loop_i = Len(numeric_cols)
       IN  Settle(extract_numeric(col),
                  No("x_numeric", "Found mismatches in column", col),
                  IF last THEN "x_parse" ELSE "x_numeric",
                  IF last THEN 1 ELSE loop_i + 1, <<>>)
    /\ VerifyFrame

XDatetimeParse ==
    /\ pc = "x_parse"
    /\ LET dt_col == datetime_cols[loop_i]
       IN  Settle(extract_parse(dt_col),
                  No("x_parse", "Could not parse datetime in", dt_col),
                  "x_compare", loop_i, <<>>)
    /\ VerifyFrame

XDatetimeCompare ==
    /\ pc = "x_compare"
    /\ LET dt_col == datetime_cols[loop_i]
           last == loop_i = Len(datetime_cols)
       IN  Settle(extract_compare(dt_col),
                  No("x_compare", "Incorrect datetime conversions in", dt_col),
                  IF last THEN "f_dup" ELSE "x_parse",
                  IF last THEN 0 ELSE loop_i + 1,
                  IF last THEN <<Yes("All extraction data verified correctly"),
                                 Info("Verifying formatting process...")>>
                  ELSE <<>>)
    /\ VerifyFrame

FDuplicateIds ==
    /\ pc = "f_dup"
    /\ Settle(format_duplicate_ids, No("f_dup", "Found duplicate IDs", "none"),
              "f_format", 0, <<>>)
    /\ VerifyFrame

FIdFormat ==
    /\ pc = "f_format"
    /\ Settle(format_id_format, No("f_format", "Found IDs with invalid format", "none"),
              "f_rows", 0, <<>>)
    /\ VerifyFrame

FRowCount ==
    /\ pc = "f_rows"
    /\ Settle(format_row_count, No("f_rows", "Row count mismatch", "none"),
              "f_cols", 0, <<>>)
    /\ VerifyFrame

FExpectedCols ==
    /\ pc = "f_cols"
    /\ Settle(format_expected_cols,
              No("f_cols", "Missing column in formatted data",
                 IF missing_cols # <<>> THEN Head(missing_cols) ELSE "none"),
              "f_removed", 0, <<>>)
    /\ VerifyFrame

FDatetimeRemoved ==
    /\ pc = "f_removed"
    /\ Settle(format_datetime_removed,
              No("f_removed", "Column should be removed from formatted data",
                 IF kept_cols # <<>> THEN Head(kept_cols) ELSE "none"),
              "f_elapsed", 0, <<Info("Verifying elapsed time calculations...")>>)
    /\ VerifyFrame

\* the error report of lines 138-141 is printed inside the loop, before the
\* verdict
FElapsed ==
    /\ pc = "f_elapsed"
    /\ IF format_elapsed = "fail"
       THEN /\ console' = console
                   \o [k \in 1..Min(5, Cardinality(elapsed_errors)) |->
                         Info("Error in elapsed time calculation for row")]
                   \o <<No("f_elapsed", "Found errors in elapsed time calculations",
                           "none")>>
            /\ pc' = SysExit("done").pc
            /\ exit_code' = SysExit("done").exit_code
            /\ loop_i' = loop_i
       ELSE Settle(format_elapsed, Info("unused"), "done", 0,
                   <<Yes("All formatting data verified correctly")>>)
    /\ VerifyFrame

VerifyInit ==
    /\ IdleStats /\ IdleElapsed /\ IdleIds /\ IdlePipe
    /\ pc = "x_rows"
    /\ console = <<>>
    /\ loop_i = 0
    /\ exit_code = NotExited
    /\ \E n \in 0..MaxTrips :
          \E dx \in ExtractDefects(n), df \in FormatDefects(n) :
              /\ raw_df = RawFile(n, dx)
              /\ rel_df = Defective(BaseRel(n), dx)
              /\ fmt_df = Defective(BaseFmt(n), df)

VerifyNext ==
    \/ XRowCount \/ XNumeric \/ XDatetimeParse \/ XDatetimeCompare
    \/ FDuplicateIds \/ FIdFormat \/ FRowCount \/ FExpectedCols
    \/ FDatetimeRemoved \/ FElapsed

SpecVerify == VerifyInit /\ [][VerifyNext]_vars

-----------------------------------------------------------------------------
(* Reading the verifier's output *)

NoLines == {k \in 1..Len(console) : console[k].verdict = "NO"}

YesPrinted(text) ==
    \E k \in 1..Len(console) : console[k] = Yes(text)

\* the check categories in the order the run reaches them
CheckOrder ==
    << [at |-> "x_rows", col |-> "none"],
       [at |-> "x_numeric", col |-> "passenger_count"],
       [at |-> "x_numeric", col |-> "trip_distance"],
       [at |-> "x_numeric", col |-> "fare_amount"],
       [at |-> "x_parse", col |-> "pickup_datetime"],
       [at |-> "x_compare", col |-> "pickup_datetime"],
       [at |-> "x_parse", col |-> "dropoff_datetime"],
       [at |-> "x_compare", col |-> "dropoff_datetime"],
       [at |-> "f_dup", col |-> "none"],
       [at |-> "f_format", col |-> "none"],
       [at |-> "f_rows", col |-> "none"],
       [at |-> "f_cols", col |-> "none"],
       [at |-> "f_removed", col |-> "none"],
       [at |-> "f_elapsed", col |-> "none"] >>

\* the categories of verify_extract
ExtractChecks ==
    {k \in 1..Len(CheckOrder) :
        CheckOrder[k].at \in {"x_rows", "x_numeric", "x_parse", "x_compare"}}

OutcomeOf(c) ==
    CASE c.at = "x_rows" -> extract_row_count
      [] c.at = "x_numeric" -> extract_numeric(c.col)
      [] c.at = "x_parse" -> extract_parse(c.col)
      [] c.at = "x_compare" -> extract_compare(c.col)
      [] c.at = "f_dup" -> format_duplicate_ids
      [] c.at = "f_format" -> format_id_format
      [] c.at = "f_rows" -> format_row_count
      [] c.at = "f_cols" -> format_expected_cols
      [] c.at = "f_removed" -> format_datetime_removed
      [] c.at = "f_elapsed" -> format_elapsed

\* index of the first category that does not pass on these files, 0 if all
\* pass
RECURSIVE FirstNotPassing(_)
FirstNotPassing(k) ==
    IF k > Len(CheckOrder) THEN 0
    ELSE IF OutcomeOf(CheckOrder[k]) # "pass" THEN k
    ELSE FirstNotPassing(k + 1)

(* C3: the first failing check category prints exactly one NO line and     *)
(* ends the process with a nonzero status; nothing is evaluated or printed *)
(* after it; the YES line of a stage is printed only when every category   *)
(* of that stage has passed.                                               *)
C3_Verdicts ==
    LET first == FirstNotPassing(1)
    IN  /\ Cardinality(NoLines) <= 1
        /\ \A k \in NoLines :
              /\ k = Len(console)
              /\ pc = "exited" /\ exit_code = 1
              /\ first # 0
              /\ OutcomeOf(CheckOrder[first]) = "fail"
              /\ console[k].check = CheckOrder[first].at
              /\ first \in ExtractChecks => console[k].col = CheckOrder[first].col
        /\ pc = "exited" => NoLines # {}
        /\ pc = "crashed" =>
              /\ exit_code = 1
              /\ first # 0
              /\ OutcomeOf(CheckOrder[first]) = "crash"
        /\ pc \notin {"exited", "crashed", "done"} => exit_code = NotExited
        /\ YesPrinted("All extraction data verified correctly") =>
              first = 0 \/ first \notin ExtractChecks
        /\ YesPrinted("All formatting data verified correctly") =>
              /\ first = 0
              /\ pc = "done" /\ exit_code = 0
              /\ YesPrinted("All extraction data verified correctly")
        /\ pc = "done" => YesPrinted("All formatting data verified correctly")

C3_FirstFailureStops ==
    /\ []C3_Verdicts
    /\ [][exit_code = NotExited]_vars

\* verify_extract printed YES and a later check of verify_format printed NO
C3_FormatStageRejected ==
    /\ pc = "exited"
    /\ exit_code = 1
    /\ Len(console) >= 3
    /\ console[1] = Yes("All extraction data verified correctly")
    /\ console[Len(console)].verdict = "NO"
    /\ console[Len(console)].check = "f_elapsed"

-----------------------------------------------------------------------------
(* C4: verify_extract prints its YES only if, for each numeric column and  *)
(* every row, the raw and the processed value are both present and differ  *)
(* by at most 1e-10; a processed file that lost a value is rejected.       *)
C4_YesOnlyIfNothingLost ==
    YesPrinted("All extraction data verified correctly") =>
        \A c \in 1..Len(numeric_cols) : \A r \in 1..Len(raw_df.rows) :
            LET a == raw_df.rows[r][numeric_cols[c]]
                b == rel_df.rows[r][numeric_cols[c]]
            IN  /\ ~a.nan
                /\ ~b.nan
                /\ a.v = b.v
                /\ Abs(a.e - b.e) <= Tolerance

-----------------------------------------------------------------------------
(* The chain of scripts: extract_columns.py, format_data.py,               *)
(* generate_stats_report.py and verify_data.py run one after the other in  *)
(* one working directory.  Each script is a process of its own, so a       *)
(* script that ends with an uncaught exception does not keep the next one  *)
(* from being started.  disk maps a file name to the table the file holds; *)
(* a table is [columns, rows] as for the verifier.                         *)

\* the file names each script opens
extract_input_file == "Raw Data.csv"
extract_output_file == "relevantdata.csv"
format_input_file == "relevant_data.csv"
format_output_file == "formatted_data.csv"
report_input_file == "formatted_data.csv"
raw_file == "raw_data.csv"
relevant_file == "relevant_data.csv"
formatted_file == "formatted_data.csv"

FileNames ==
    {extract_input_file, extract_output_file, format_input_file,
     format_output_file, report_input_file, raw_file, relevant_file,
     formatted_file}

Stages == <<"extract_columns", "format_data", "generate_stats_report",
            "verify_data">>

NoFile == [exists |-> FALSE, df |-> NoTable]
File(df) == [exists |-> TRUE, df |-> df]

columns_to_keep ==
    <<"passenger_count", "trip_distance", "fare_amount", "pickup_datetime">>

\* the columns of df named in cols, in the order of the file
KeepColumns(df, cols) ==
    [columns |-> SelectSeq(df.columns, LAMBDA c : c \in ColSet(cols)),
     rows |-> [i \in 1..Len(df.rows) |->
                 [c \in (DOMAIN df.rows[i]) \cap ColSet(cols) |-> df.rows[i][c]]]]

\* pd.read_csv(name): FileNotFoundError when there is no such file
read_csv(name) ==
    IF ~disk[name].exists
    THEN [error |-> "FileNotFoundError", df |-> NoTable]
    ELSE [error |-> "none", df |-> disk[name].df]

\* pd.read_csv(name, usecols=cols): ValueError when the file lacks one of cols
read_csv_usecols(name, cols) ==
    IF ~disk[name].exists
    THEN [error |-> "FileNotFoundError", df |-> NoTable]
    ELSE IF ~(ColSet(cols) \subseteq ColSet(disk[name].df.columns))
    THEN [error |-> "ValueError", df |-> NoTable]
    ELSE [error |-> "none", df |-> KeepColumns(disk[name].df, cols)]

\* the lists generate_unique_ids(n) can return: each element was drawn and
\* passed the test new_id not in used_ids
RECURSIVE generate_unique_ids(_)
generate_unique_ids(n) ==
    IF n = 0 THEN {<<>>}
    ELSE UNION { {Append(s, new_id) :
                    new_id \in {x \in RandomIds : IsNew(x, SeqToSet(s))}} :
                 s \in generate_unique_ids(n - 1) }

\* df.insert(0, 'trip_id', unique_ids)
InsertTripId(df, unique_ids) ==
    [columns |-> <<"trip_id">> \o df.columns,
     rows |-> [i \in 1..Len(df.rows) |->
                 [c \in (DOMAIN df.rows[i]) \cup {"trip_id"} |->
                    IF c = "trip_id" THEN unique_ids[i] ELSE df.rows[i][c]]]]

\* extract_columns.py lines 33-37 and 72-73: the frame written to output_file
extract_columns(df, unique_ids) ==
    InsertTripId(
      [columns |-> df.columns,
       rows |-> [i \in 1..Len(df.rows) |->
                   [c \in DOMAIN df.rows[i] |->
                      IF c = "pickup_datetime"
                      THEN strftime_HMS(df.rows[i][c])
                      ELSE df.rows[i][c]]]],
      unique_ids)

\* extract_columns.py, the whole script
ExtractColumns ==
    /\ pc = "extract_columns"
    /\ LET r == read_csv_usecols(extract_input_file, columns_to_keep)
       IN  IF r.error # "none"
           THEN /\ stage_exit' = [stage_exit EXCEPT !["extract_columns"] = r.error]
                /\ console' = Append(console, "Reading from Raw Data.csv")
                /\ disk' = disk
           ELSE IF \E i \in 1..Len(r.df.rows) :
                      RaisesValueError(r.df.rows[i]["pickup_datetime"])
           THEN /\ stage_exit' = [stage_exit EXCEPT !["extract_columns"] = "ValueError"]
                /\ console' = console \o <<"Reading from Raw Data.csv",
                                           "Processing pickup_datetime column">>
                /\ disk' = disk
           ELSE \E unique_ids \in generate_unique_ids(Len(r.df.rows)) :
                /\ disk' = [disk EXCEPT ![extract_output_file] =
                                File(extract_columns(r.df, unique_ids))]
                /\ stage_exit' = [stage_exit EXCEPT !["extract_columns"] = "ok"]
                /\ console' = console \o <<"Reading from Raw Data.csv",
                                           "Processing pickup_datetime column",
                                           "Generating unique trip IDs",
                                           "Writing to relevantdata.csv",
                                           "Done! Created relevantdata.csv">>
    /\ pc' = "format_data"
    /\ UNCHANGED <<statsVars, elapsedVars, idVars, verifyVars>>

\* the exception format_data.py raises on the frame it has read, if any:
\* df.insert of a column that exists is a ValueError (line 79), a row or a
\* drop without one of the time columns is a KeyError (lines 83-90)
format_data_error(df) ==
    IF HasCol(df, "trip_id") THEN "ValueError"
    ELSE IF \E k \in 1..Len(datetime_cols) : ~HasCol(df, datetime_cols[k])
    THEN "KeyError"
    ELSE "none"

\* format_data.py lines 77-90: the frame written to output_file
format_data(df, unique_ids) ==
    LET with_ids == InsertTripId(df, unique_ids)
        kept == SelectSeq(with_ids.columns,
                          LAMBDA c : c \notin ColSet(datetime_cols))
    IN  [columns |-> Append(kept, "elapsed_time"),
         rows |-> [i \in 1..Len(df.rows) |->
                     [c \in ColSet(kept) \cup {"elapsed_time"} |->
                        IF c = "elapsed_time"
                        THEN Num(calculate_elapsed_time(
                                   df.rows[i]["pickup_datetime"],
                                   df.rows[i]["dropoff_datetime"]))
                        ELSE with_ids.rows[i][c]]]]

\* format_data.py, the whole script
FormatData ==
    /\ pc = "format_data"
    /\ LET r == read_csv(format_input_file)
       IN  IF r.error # "none"
           THEN /\ stage_exit' = [stage_exit EXCEPT !["format_data"] = r.error]
                /\ console' = Append(console, "Reading from relevant_data.csv")
                /\ disk' = disk
           ELSE IF format_data_error(r.df) # "none"
           THEN /\ stage_exit' = [stage_exit EXCEPT !["format_data"] =
                                     format_data_error(r.df)]
                /\ console' = console \o <<"Reading from relevant_data.csv",
                                           "Generating unique trip IDs">>
                /\ disk' = disk
           ELSE \E unique_ids \in generate_unique_ids(Len(r.df.rows)) :
                /\ disk' = [disk EXCEPT ![format_output_file] =
                                File(format_data(r.df, unique_ids))]
                /\ stage_exit' = [stage_exit EXCEPT !["format_data"] = "ok"]
                /\ console' = console \o <<"Reading from relevant_data.csv",
                                           "Generating unique trip IDs",
                                           "Calculating elapsed times",
                                           "Removing datetime columns",
                                           "Writing to formatted_data.csv",
                                           "Done! Created formatted_data.csv">>
    /\ pc' = "generate_stats_report"
    /\ UNCHANGED <<statsVars, elapsedVars, idVars, verifyVars>>

\* DataFrame.to_csv followed by the cells pd.read_csv meets: an identifier
\* or a time of day is text, a missing value an empty cell, elapsed_time
\* (a float from total_seconds) a literal with a decimal point, the other
\* numbers the integer literals of the raw file
CsvCell(col, cell) ==
    IF col = "trip_id" \/ col \in ColSet(datetime_cols) THEN BadCell
    ELSE IF cell.nan THEN EmptyCell
    ELSE IF col = "elapsed_time" THEN FloatCell(cell.v)
    ELSE IntCell(cell.v)

to_csv(df) ==
    [status |-> "ok", header |-> df.columns,
     cols |-> [c \in 1..Len(df.columns) |->
                 [i \in 1..Len(df.rows) |->
                    CsvCell(df.columns[c], df.rows[i][df.columns[c]])]]]

\* generate_stats_report.py, main from start to return
StatsReport ==
    /\ pc = "generate_stats_report"
    /\ LET r == read_csv(report_input_file)
           frame == ReadCsv(to_csv(r.df))
       IN  IF r.error # "none"
           THEN /\ stage_exit' = [stage_exit EXCEPT
                                     !["generate_stats_report"] = "read_error"]
                /\ console' = console \o <<"Reading data",
                                           "Error reading CSV file">>
                /\ UNCHANGED <<data, stats_dict, report>>
           ELSE /\ data' = frame
                /\ stats_dict' = calculate_statistics(frame)
                /\ report' = WriteReport(calculate_statistics(frame))
                /\ stage_exit' = [stage_exit EXCEPT
                                     !["generate_stats_report"] = "ok"]
                /\ console' = console \o <<"Reading data",
                                           "Successfully read data",
                                           "Calculating statistics",
                                           "Generating markdown report",
                                           "Report successfully generated">>
    /\ pc' = "verify_data"
    /\ UNCHANGED <<input_file, disk, elapsedVars, idVars, verifyVars>>

\* verify_data.py: the reads of verify_extract (lines 16-20) and of
\* verify_format.  With all files read the run goes on with the checks,
\* which are the actions of SpecVerify from XRowCount on.
VerifyData ==
    /\ pc = "verify_data"
    /\ LET raw == read_csv_usecols(raw_file, RawCols)
           proc == read_csv(relevant_file)
           fmt == read_csv(formatted_file)
           error == IF raw.error # "none" THEN raw.error
                    ELSE IF proc.error # "none" THEN proc.error
                    ELSE fmt.error
       IN  IF error # "none"
           THEN /\ stage_exit' = [stage_exit EXCEPT !["verify_data"] = error]
                /\ console' = Append(console, "Verifying extraction process")
                /\ pc' = "finished"
                /\ UNCHANGED <<raw_df, rel_df, fmt_df>>
           ELSE /\ raw_df' = raw.df
                /\ rel_df' = proc.df
                /\ fmt_df' = fmt.df
                /\ stage_exit' = [stage_exit EXCEPT !["verify_data"] = "checking"]
                /\ console' = console
                /\ pc' = "x_rows"
    /\ UNCHANGED <<disk, loop_i, exit_code, statsVars, elapsedVars, idVars>>

\* the working directory before the chain starts: the raw data is there
\* under the name extract_columns.py opens, and possibly also under the
\* name verify_data.py opens; no script has written anything yet
PipelineInit ==
    /\ IdleStats /\ IdleElapsed /\ IdleIds /\ IdleVerify
    /\ pc = "extract_columns"
    /\ console = <<>>
    /\ stage_exit = [k \in ColSet(Stages) |-> "not_run"]
    /\ \E n \in 1..MaxTrips, copied \in BOOLEAN :
          disk = [f \in FileNames |->
                    IF f = extract_input_file \/ (copied /\ f = raw_file)
                    THEN File(BaseRaw(n))
                    ELSE NoFile]

PipelineNext == ExtractColumns \/ FormatData \/ StatsReport \/ VerifyData

SpecPipeline == PipelineInit /\ [][PipelineNext]_vars

IsTimeOfDay(cell) == DOMAIN cell = {"H", "M", "S"}

\* how often the column appears in the header of the table
TimesInHeader(df, col) ==
    Cardinality({k \in 1..Len(df.columns) : df.columns[k] = col})

(* C11: in the chain extract_columns, format_data, generate_stats_report,  *)
(* verify_data no script fails; the file extract_columns has written is    *)
(* there under the names format_data and verify_data open, it holds the    *)
(* pickup and the dropoff column as times of day and format_data accepts   *)
(* it without a missing or duplicate column; the file format_data has      *)
(* written is there under the name generate_stats_report opens, with one   *)
(* trip_id column; the finished chain has written the statistics report.   *)
C11_ChainReachesReport ==
    /\ \A k \in 1..Len(Stages) :
          stage_exit[Stages[k]] \in {"not_run", "ok", "checking"}
    /\ stage_exit["extract_columns"] = "ok" =>
          LET out == disk[extract_output_file].df
          IN  /\ disk[format_input_file].exists
              /\ disk[relevant_file].exists
              /\ \A k \in 1..Len(datetime_cols) :
                    /\ HasCol(out, datetime_cols[k])
                    /\ \A i \in 1..Len(out.rows) :
                          IsTimeOfDay(out.rows[i][datetime_cols[k]])
              /\ format_data_error(out) = "none"
    /\ stage_exit["format_data"] = "ok" =>
          /\ disk[report_input_file].exists
          /\ TimesInHeader(disk[format_output_file].df, "trip_id") = 1
    /\ pc = "finished" => ReportWritten

====
